---- MODULE Spec2Model ----
(***************************************************************************)
(* Model of ai_real_estate_agent_dubai.py: the Streamlit script main(),    *)
(* the session-held PropertyFindingAgent and its two pipelines,            *)
(* find_properties and get_location_trends.                                *)
(*                                                                         *)
(* One script run (a press of "Start Search") is cut at its blocking calls *)
(* to the two external services: firecrawl.extract and agent.run.  Each    *)
(* call either returns a value chosen by the service or raises.            *)
(***************************************************************************)
EXTENDS Integers, Sequences, FiniteSets, TLC

VARIABLES
    session_agent,    \* st.session_state.property_agent: 0 when absent, else the instance id
    constructed,      \* number of PropertyFindingAgent instances constructed so far
    agent_used,       \* per search, the instance id that served it (one entry per press)
    pc,               \* position of the script run
    stage,            \* which pipeline the run is in: "none", "property", "trend"
    city,             \* text of the "Area" input, a sequence of characters
    property_type,    \* selectbox "Property Type", a sequence of characters
    urls,             \* the url list handed to firecrawl.extract by the running pipeline
    raw_response,     \* raw_response of the pipeline function last entered in this run
    collection,       \* its properties / locations
    instruction,      \* the argument of its agent.run call
    p_extract_calls,  \* firecrawl.extract calls issued by find_properties in this search
    p_gen_calls,      \* agent.run calls issued by find_properties in this search
    t_extract_calls,  \* firecrawl.extract calls issued by get_location_trends in this search
    t_gen_calls,      \* agent.run calls issued by get_location_trends in this search
    property_results, \* main's property_results
    location_trends,  \* main's location_trends
    fault             \* what raised in this search: "none", "extract", "payload", "generate"

vars == << session_agent, constructed, agent_used, pc, stage, city,
           property_type, urls, raw_response,
           collection, instruction, p_extract_calls, p_gen_calls,
           t_extract_calls, t_gen_calls, property_results, location_trends,
           fault >>

-----------------------------------------------------------------------------
(* Bounds of the model *)

\* longest "Area" text a search is submitted with
MaxLen == 1
\* longest "Area" text the query builder alone is exercised with
MaxCityLen == 4
\* longest record list an extraction envelope carries
MaxProps == 2
\* number of "Start Search" presses in one browser session
MaxSearches == 2

-----------------------------------------------------------------------------
(* Strings are sequences of characters *)

Alphabet == {"B", "b", " ", "\t"}

Strings(n) == UNION { [1..k -> Alphabet] : k \in 0..n }

\* characters str.strip() removes
IsWhitespace(c) == c \in {" ", "\t"}

\* str.lower(), character by character
LowerChar(c) ==
    CASE c = "A" -> "a"
      [] c = "B" -> "b"
      [] c = "V" -> "v"
      [] OTHER -> c

Lower(s) == [i \in 1..Len(s) |-> LowerChar(s[i])]

RECURSIVE LStrip(_)
LStrip(s) ==
    IF s = <<>> THEN s
    ELSE IF IsWhitespace(Head(s)) THEN LStrip(Tail(s)) ELSE s

RECURSIVE RStrip(_)
RStrip(s) ==
    IF s = <<>> THEN s
    ELSE IF IsWhitespace(s[Len(s)]) THEN RStrip(SubSeq(s, 1, Len(s) - 1)) ELSE s

\* str.strip()
Strip(s) == RStrip(LStrip(s))

\* str.replace(" ", "-"): every occurrence of the one-character string " "
ReplaceSpaces(s) == [i \in 1..Len(s) |-> IF s[i] = " " THEN "-" ELSE s[i]]

\* x.strip().lower().replace(" ", "-")
FormatSegment(s) == ReplaceSpaces(Lower(Strip(s)))

Apartments == << "A", "p", "a", "r", "t", "m", "e", "n", "t", "s" >>
Villas == << "V", "i", "l", "l", "a", "s" >>

PropertyTypes == {Apartments, Villas}

\* the url list of find_properties: one live entry, two commented out
PropertyUrls(ptype, c) ==
    << [site |-> "propertyfinder.ae/en/buy/dubai",
        property_type |-> FormatSegment(ptype),
        location |-> FormatSegment(c)] >>

\* the url list of get_location_trends
TrendUrls(c) ==
    << [site |-> "propertyfinder.ae/en/area-insights/dubai",
        property_type |-> <<>>,
        location |-> FormatSegment(c)] >>

-----------------------------------------------------------------------------
(* Values the extraction service can return *)

Records == {"r1", "r2"}

Lists == UNION { [1..k -> Records] : k \in 0..MaxProps }

\* the value under 'data': absent, present but no mapping, or a mapping that
\* holds a list under 'properties', under 'locations', or holds neither
DataValues ==
    { [kind |-> "absent", key |-> "none", items |-> <<>>],
      [kind |-> "scalar", key |-> "none", items |-> <<>>],
      [kind |-> "mapping", key |-> "none", items |-> <<>>] }
    \cup { [kind |-> "mapping", key |-> k, items |-> l] :
             k \in {"properties", "locations"}, l \in Lists }

\* a raw_response that is no dict at all
NotDict ==
    [isdict |-> FALSE, success |-> "absent",
     data |-> [kind |-> "absent", key |-> "none", items |-> <<>>]]

\* no extract call has returned
NoResponse ==
    [isdict |-> FALSE, success |-> "pending",
     data |-> [kind |-> "absent", key |-> "none", items |-> <<>>]]

Envelopes ==
    { NotDict }
    \cup { [isdict |-> TRUE, success |-> s, data |-> d] :
             s \in {"absent", "false", "true"}, d \in DataValues }

\* isinstance(raw_response, dict) and raw_response.get('success')
IsSuccess(env) == env.isdict /\ env.success = "true"

\* raw_response['data'].get(key, ...) raises: KeyError without 'data',
\* AttributeError when the value has no .get
DataAccessRaises(env) == env.data.kind # "mapping"

\* raw_response['data'].get(key, [])
DataGet(env, key) == IF env.data.key = key THEN env.data.items ELSE <<>>

Narratives == {"narrative_a", "narrative_b"}
Placeholder == "No price trends data available"
None == "None"
NoInstruction == [template |-> "none", collection |-> <<>>]

-----------------------------------------------------------------------------
Init ==
    /\ session_agent = 0
    /\ constructed = 0
    /\ agent_used = <<>>
    /\ pc = "start"
    /\ stage = "none"
    /\ city = <<>>
    /\ property_type = Apartments
    /\ urls = <<>>
    /\ raw_response = NoResponse
    /\ collection = <<>>
    /\ instruction = NoInstruction
    /\ p_extract_calls = 0
    /\ p_gen_calls = 0
    /\ t_extract_calls = 0
    /\ t_gen_calls = 0
    /\ property_results = None
    /\ location_trends = None
    /\ fault = "none"

-----------------------------------------------------------------------------
(* main(): the script run *)

\* the script run has reached its end: main returned, or st.error was shown
RunEnded == pc \in {"rejected", "error", "done"}

\* create_property_agent(): construct only when the session holds none
AgentAfterCreate == IF session_agent = 0 THEN constructed + 1 ELSE session_agent
ConstructedAfterCreate == IF session_agent = 0 THEN constructed + 1 ELSE constructed

\* a check that asks `city is None`: a text input never yields None
CityIsNone(c) == FALSE

\* `if not city`
CityMissing(c) == c = <<>>

\* a fault swallowed around find_properties alone: the run goes on to the trends
FaultSwallowed == "p_returned"

\* where a fault raised inside find_properties leaves the run: main's except
\* clause reports it and the run ends
PropertyFaultTarget == "error"

\* everything a new script run starts from
FreshRun ==
    /\ urls' = <<>>
    /\ raw_response' = NoResponse
    /\ collection' = <<>>
    /\ instruction' = NoInstruction
    /\ p_extract_calls' = 0
    /\ p_gen_calls' = 0
    /\ t_extract_calls' = 0
    /\ t_gen_calls' = 0
    /\ property_results' = None
    /\ location_trends' = None
    /\ fault' = "none"

\* a run of the script with the button not pressed (page load, widget edit):
\* create_property_agent and the form, nothing else
Render ==
    /\ pc \in {"start", "form"}
    /\ session_agent' = AgentAfterCreate
    /\ constructed' = ConstructedAfterCreate
    /\ pc' = "form"
    /\ UNCHANGED << agent_used, stage, city, property_type, urls, raw_response,
                    collection, instruction, p_extract_calls, p_gen_calls,
                    t_extract_calls, t_gen_calls, property_results,
                    location_trends, fault >>

\* the script run is over: main's locals and both pipelines' locals are gone,
\* the session state and the widget values stay
RunEnds ==
    /\ RunEnded
    /\ pc' = "form"
    /\ stage' = "none"
    /\ FreshRun
    /\ UNCHANGED << session_agent, constructed, agent_used, city, property_type >>

\* a run of the script with "Start Search" pressed, up to the first blocking
\* call: the empty-city check, then find_properties up to firecrawl.extract
StartSearch(c, t) ==
    /\ pc = "form"
    /\ Len(agent_used) < MaxSearches
    /\ session_agent' = AgentAfterCreate
    /\ constructed' = ConstructedAfterCreate
    /\ city' = c
    /\ property_type' = t
    /\ raw_response' = NoResponse
    /\ collection' = <<>>
    /\ instruction' = NoInstruction
    /\ p_gen_calls' = 0
    /\ t_extract_calls' = 0
    /\ t_gen_calls' = 0
    /\ property_results' = None
    /\ location_trends' = None
    /\ fault' = "none"
    /\ IF CityMissing(c)
       THEN /\ pc' = "rejected"
            /\ stage' = "none"
            /\ urls' = <<>>
            /\ p_extract_calls' = 0
            /\ agent_used' = Append(agent_used, [agent |-> AgentAfterCreate, ran |-> FALSE])
       ELSE /\ pc' = "p_extracting"
            /\ stage' = "property"
            /\ urls' = PropertyUrls(t, c)
            /\ p_extract_calls' = 1
            /\ agent_used' = Append(agent_used, [agent |-> AgentAfterCreate, ran |-> TRUE])

-----------------------------------------------------------------------------
(* find_properties *)

\* a list with every record after its first occurrence dropped
RECURSIVE Dedup(_)
Dedup(l) ==
    IF l = <<>> THEN l
    ELSE LET rest == Dedup(SubSeq(l, 1, Len(l) - 1))
             last == l[Len(l)]
         IN  IF \E i \in 1..Len(rest) : rest[i] = last THEN rest ELSE Append(rest, last)

\* the assignment of `properties` with duplicates removed
PropertiesOfDeduplicated(env) ==
    IF IsSuccess(env) THEN Dedup(DataGet(env, "properties")) ELSE <<>>

\* the if/else that assigns `properties`
PropertiesOf(env) == IF IsSuccess(env) THEN DataGet(env, "properties") ELSE <<>>

\* the if/else that assigns `properties` raises instead
PropertiesRaises(env) == IsSuccess(env) /\ DataAccessRaises(env)

\* firecrawl.extract returns env; `properties` is assigned and agent.run called
PropExtractReturns(env) ==
    /\ pc = "p_extracting"
    /\ raw_response' = env
    /\ IF PropertiesRaises(env)
       THEN /\ pc' = PropertyFaultTarget
            /\ fault' = "payload"
            /\ UNCHANGED << collection, instruction, p_gen_calls >>
       ELSE /\ collection' = PropertiesOf(env)
            /\ instruction' = [template |-> "properties", collection |-> PropertiesOf(env)]
            /\ p_gen_calls' = p_gen_calls + 1
            /\ pc' = "p_analyzing"
            /\ fault' = fault
    /\ UNCHANGED << session_agent, constructed, agent_used, stage, city,
                    property_type, urls, p_extract_calls, t_extract_calls,
                    t_gen_calls, property_results, location_trends >>

\* firecrawl.extract raises; nothing in find_properties catches it
PropExtractRaises ==
    /\ pc = "p_extracting"
    /\ pc' = PropertyFaultTarget
    /\ fault' = "extract"
    /\ UNCHANGED << session_agent, constructed, agent_used, stage, city,
                    property_type, urls, raw_response, collection, instruction,
                    p_extract_calls, p_gen_calls, t_extract_calls, t_gen_calls,
                    property_results, location_trends >>

\* agent.run returns; find_properties returns analysis.content to main
PropGenReturns(n) ==
    /\ pc = "p_analyzing"
    /\ property_results' = n
    /\ pc' = "p_returned"
    /\ UNCHANGED << session_agent, constructed, agent_used, stage, city,
                    property_type, urls, raw_response, collection, instruction,
                    p_extract_calls, p_gen_calls, t_extract_calls, t_gen_calls,
                    location_trends, fault >>

\* agent.run raises
PropGenRaises ==
    /\ pc = "p_analyzing"
    /\ pc' = PropertyFaultTarget
    /\ fault' = "generate"
    /\ UNCHANGED << session_agent, constructed, agent_used, stage, city,
                    property_type, urls, raw_response, collection, instruction,
                    p_extract_calls, p_gen_calls, t_extract_calls, t_gen_calls,
                    property_results, location_trends >>

-----------------------------------------------------------------------------
(* get_location_trends *)

\* main shows the property narrative and calls get_location_trends, which
\* runs up to its firecrawl.extract call
StartTrends ==
    /\ pc = "p_returned"
    /\ stage' = "trend"
    /\ urls' = TrendUrls(city)
    /\ t_extract_calls' = t_extract_calls + 1
    /\ pc' = "t_extracting"
    /\ raw_response' = NoResponse
    /\ collection' = <<>>
    /\ instruction' = NoInstruction
    /\ UNCHANGED << session_agent, constructed, agent_used, city, property_type,
                    p_extract_calls, p_gen_calls, t_gen_calls, property_results,
                    location_trends, fault >>

\* raw_response['data'].get('locations', []) inside the success branch
LocationsOf(env) == DataGet(env, "locations")

\* the success test that guards the call of agent.run
TrendsAnalyzed(env) == IsSuccess(env)

\* firecrawl.extract returns env
TrendExtractReturns(env) ==
    /\ pc = "t_extracting"
    /\ raw_response' = env
    /\ IF TrendsAnalyzed(env)
       THEN IF DataAccessRaises(env)
            THEN /\ pc' = "error"
                 /\ fault' = "payload"
                 /\ UNCHANGED << collection, instruction, t_gen_calls, location_trends >>
            ELSE /\ collection' = LocationsOf(env)
                 /\ instruction' = [template |-> "trends", collection |-> LocationsOf(env)]
                 /\ t_gen_calls' = t_gen_calls + 1
                 /\ pc' = "t_analyzing"
                 /\ UNCHANGED << fault, location_trends >>
       ELSE /\ location_trends' = Placeholder
            /\ pc' = "done"
            /\ UNCHANGED << collection, instruction, t_gen_calls, fault >>
    /\ UNCHANGED << session_agent, constructed, agent_used, stage, city,
                    property_type, urls, p_extract_calls, p_gen_calls,
                    t_extract_calls, property_results >>

\* firecrawl.extract raises
TrendExtractRaises ==
    /\ pc = "t_extracting"
    /\ pc' = "error"
    /\ fault' = "extract"
    /\ UNCHANGED << session_agent, constructed, agent_used, stage, city,
                    property_type, urls, raw_response, collection, instruction,
                    p_extract_calls, p_gen_calls, t_extract_calls, t_gen_calls,
                    property_results, location_trends >>

\* agent.run returns; get_location_trends returns analysis.content to main
TrendGenReturns(n) ==
    /\ pc = "t_analyzing"
    /\ location_trends' = n
    /\ pc' = "done"
    /\ UNCHANGED << session_agent, constructed, agent_used, stage, city,
                    property_type, urls, raw_response, collection, instruction,
                    p_extract_calls, p_gen_calls, t_extract_calls, t_gen_calls,
                    property_results, fault >>

\* agent.run raises
TrendGenRaises ==
    /\ pc = "t_analyzing"
    /\ pc' = "error"
    /\ fault' = "generate"
    /\ UNCHANGED << session_agent, constructed, agent_used, stage, city,
                    property_type, urls, raw_response, collection, instruction,
                    p_extract_calls, p_gen_calls, t_extract_calls, t_gen_calls,
                    property_results, location_trends >>

-----------------------------------------------------------------------------
Next ==
    \/ Render
    \/ RunEnds
    \/ \E c \in Strings(MaxLen), t \in PropertyTypes : StartSearch(c, t)
    \/ \E env \in Envelopes : PropExtractReturns(env)
    \/ PropExtractRaises
    \/ \E n \in Narratives : PropGenReturns(n)
    \/ PropGenRaises
    \/ StartTrends
    \/ \E env \in Envelopes : TrendExtractReturns(env)
    \/ TrendExtractRaises
    \/ \E n \in Narratives : TrendGenReturns(n)
    \/ TrendGenRaises

Spec == Init /\ [][Next]_vars

-----------------------------------------------------------------------------
(* The query builder alone: the url construction of both pipelines applied  *)
(* to every "Area" text up to MaxCityLen.                                   *)

InitQuery ==
    /\ session_agent = 0
    /\ constructed = 0
    /\ agent_used = <<>>
    /\ pc = "start"
    /\ stage = "none"
    /\ city \in Strings(MaxCityLen)
    /\ property_type \in PropertyTypes
    /\ urls = <<>>
    /\ raw_response = NoResponse
    /\ collection = <<>>
    /\ instruction = NoInstruction
    /\ p_extract_calls = 0
    /\ p_gen_calls = 0
    /\ t_extract_calls = 0
    /\ t_gen_calls = 0
    /\ property_results = None
    /\ location_trends = None
    /\ fault = "none"

\* find_properties up to the url list
BuildPropertyQuery ==
    /\ stage' = "property"
    /\ urls' = PropertyUrls(property_type, city)
    /\ UNCHANGED << session_agent, constructed, agent_used, pc, city,
                    property_type, raw_response, collection, instruction,
                    p_extract_calls, p_gen_calls, t_extract_calls, t_gen_calls,
                    property_results, location_trends, fault >>

\* get_location_trends up to the url list
BuildTrendQuery ==
    /\ stage' = "trend"
    /\ urls' = TrendUrls(city)
    /\ UNCHANGED << session_agent, constructed, agent_used, pc, city,
                    property_type, raw_response, collection, instruction,
                    p_extract_calls, p_gen_calls, t_extract_calls, t_gen_calls,
                    property_results, location_trends, fault >>

NextQuery ==
    \/ BuildPropertyQuery
    \/ BuildTrendQuery

SpecQuery == InitQuery /\ [][NextQuery]_vars

-----------------------------------------------------------------------------
(* Claims *)

\* C1: a fault of the property pipeline's extraction call is never propagated
\* as an abort of the search (total failure is left to generation faults):
\* the pipeline goes on to the narrative stage instead.
C1_ExtractionFaultNotPropagated ==
    (stage = "property" /\ fault = "extract") => pc # "error"

\* an envelope that is non-success, or whose 'data' is missing or no mapping
Degraded(env) == ~IsSuccess(env) \/ env.data.kind # "mapping"

\* C2: once an envelope with success=false, or with 'data' missing or
\* malformed, has been received, in either pipeline, normalization has
\* raised no fault and the collection is the empty sequence.
C2_DegradedEnvelopeNeverFaults ==
    (raw_response # NoResponse /\ Degraded(raw_response))
        => (fault # "payload" /\ collection = <<>>)

\* the state of the trend pipeline in the words of the state machine
TrendState ==
    IF stage # "trend" THEN "Idle"
    ELSE CASE pc = "t_extracting" -> "Extracting"
           [] pc = "t_analyzing" -> "Analyzing"
           [] pc = "done" -> "Done"
           [] OTHER -> "Aborted"

\* one step of the trend pipeline as the state machine allows it
TrendStepAllowed ==
    \/ TrendState' = TrendState
    \/ TrendState = "Idle" /\ TrendState' = "Extracting"
    \/ /\ TrendState = "Extracting" /\ TrendState' = "Done"
       /\ ~IsSuccess(raw_response')
       /\ location_trends' = Placeholder
       /\ t_gen_calls' = 0
    \/ /\ TrendState = "Extracting" /\ TrendState' = "Analyzing"
       /\ IsSuccess(raw_response')
    \/ TrendState = "Analyzing" /\ TrendState' = "Done"
    \/ TrendState = "Done" /\ TrendState' = "Idle"

\* C3: on a non-success envelope get_location_trends returns the placeholder
\* with no generation call; the trend pipeline moves Idle -> Extracting ->
\* Done(placeholder) on failure, Idle -> Extracting -> Analyzing -> Done on
\* success, and makes no other transition.
C3_TrendStateMachine == [][TrendStepAllowed]_vars

\* C4: a successful trend envelope whose locality list is empty or absent
\* yields the placeholder and no call of the text generator.
C4_EmptyTrendsShortCircuit ==
    ( /\ stage = "trend"
      /\ IsSuccess(raw_response)
      /\ raw_response.data.kind = "mapping"
      /\ LocationsOf(raw_response) = <<>> )
        => (t_gen_calls = 0 /\ (pc = "done" => location_trends = Placeholder))

\* the envelope find_properties received carries a 'properties' list
HasPropertiesList ==
    /\ stage = "property"
    /\ IsSuccess(raw_response)
    /\ raw_response.data.kind = "mapping"
    /\ raw_response.data.key = "properties"

\* C5: when the envelope has success=true and a 'properties' list under
\* 'data', the collection handed to the narrative stage is that list: same
\* records, same order, same length.
C5_PropertiesPassedUnchanged ==
    (HasPropertiesList /\ p_gen_calls > 0)
        => /\ instruction.template = "properties"
           /\ instruction.collection = raw_response.data.items
           /\ Len(instruction.collection) = Len(raw_response.data.items)

\* C5 witness: a list of two equal records has been handed to the narrative stage
C5_Witness ==
    /\ HasPropertiesList
    /\ p_gen_calls = 1
    /\ Len(raw_response.data.items) >= 2
    /\ raw_response.data.items[1] = raw_response.data.items[2]

\* C6: a call of the trend pipeline has been issued, or the trend pipeline
\* entered, only if the property narrative has been returned; a property
\* pipeline that did not complete leaves the trend pipeline unstarted.
C6_TrendsOnlyAfterProperties ==
    (stage = "trend" \/ t_extract_calls > 0 \/ t_gen_calls > 0 \/ location_trends # None)
        => (property_results \in Narratives /\ p_extract_calls = 1 /\ p_gen_calls = 1)

\* C6 witness: both pipelines ran, the trend pipeline to its end
C6_Witness ==
    /\ pc = "done"
    /\ t_extract_calls = 1
    /\ property_results \in Narratives

\* C7: a search run whose city is the empty string is rejected with no
\* extraction call, no generation call and neither pipeline entered.
C7_EmptyCityRejected ==
    (pc \notin {"start", "form"} /\ city = <<>>)
        => /\ pc = "rejected"
           /\ stage = "none"
           /\ urls = <<>>
           /\ p_extract_calls = 0 /\ p_gen_calls = 0
           /\ t_extract_calls = 0 /\ t_gen_calls = 0

\* C7 witness: a search with the empty city was submitted and rejected
C7_Witness ==
    /\ pc = "rejected"
    /\ city = <<>>
    /\ Len(agent_used) >= 1

\* each run of whitespace replaced by one hyphen
RECURSIVE CollapseRuns(_)
CollapseRuns(s) ==
    IF s = <<>> THEN s
    ELSE IF IsWhitespace(Head(s)) THEN << "-" >> \o CollapseRuns(LStrip(s))
         ELSE << Head(s) >> \o CollapseRuns(Tail(s))

\* the segment as the claim describes it: trimmed, lowercased, each run of
\* internal whitespace a single hyphen
ClaimedSegment(s) == CollapseRuns(Lower(Strip(s)))

\* C8: exactly one url is built, and its location segment is the lowercased,
\* trimmed city with each run of internal whitespace replaced by one hyphen,
\* so that cities differing only in case or whitespace give the same segment.
C8_SegmentInsensitive ==
    urls # <<>>
        => /\ Len(urls) = 1
           /\ urls[1].location = ClaimedSegment(city)
           /\ \A d \in Strings(MaxCityLen) :
                ClaimedSegment(d) = ClaimedSegment(city)
                    => FormatSegment(d) = urls[1].location

\* C9: no call is issued twice; once find_properties has received an
\* envelope and ended, it has issued exactly one extraction call and exactly
\* one generation call, whose instruction embeds the empty collection when
\* the envelope is non-success; once get_location_trends has ended it has
\* issued exactly one extraction call and at most one generation call.
C9_SingleAttempt ==
    /\ p_extract_calls <= 1 /\ p_gen_calls <= 1
    /\ t_extract_calls <= 1 /\ t_gen_calls <= 1
    /\ (stage = "property" /\ raw_response # NoResponse /\ ~IsSuccess(raw_response))
          => (p_gen_calls = 1 /\ instruction.collection = <<>>)
    /\ (stage = "property" /\ raw_response # NoResponse /\ pc \in {"p_returned", "error"})
          => (p_extract_calls = 1 /\ p_gen_calls = 1)
    /\ (stage = "trend" /\ pc \in {"done", "error"})
          => (t_extract_calls = 1 /\ t_gen_calls <= 1)

\* C10: any two searches that ran a pipeline ran it on different
\* PropertyFindingAgent instances.
C10_InstancePerSearch ==
    \A i, j \in DOMAIN agent_used :
        (i < j /\ agent_used[i].ran /\ agent_used[j].ran)
            => agent_used[i].agent # agent_used[j].agent

====
